---- MODULE Spec2Model ----
(***************************************************************************)
(* Model of corpus-cleaner: the record-level cleaning engine              *)
(* (corpus_cleaner/cleaner.py, CorpusCleaner), the three-stage pipeline    *)
(* (corpus_cleaner/pipeline.py, ProcessingPipeline) and the neural scorer  *)
(* wrapper (corpus_cleaner/perplexity.py, PerplexityCalculator).           *)
(*                                                                         *)
(* A text is a sequence of Unicode code points (naturals), so that the     *)
(* character classes of the code (whitespace, script blocks, fullwidth     *)
(* forms, emoji ranges) are the code's own ranges.                         *)
(***************************************************************************)
EXTENDS Integers, Sequences, FiniteSets, TLC

VARIABLES
    seen_texts,       \* CorpusCleaner.seen_texts: set of fingerprints
    stats,            \* CorpusCleaner.stats: counter name -> count
    calls,            \* history: one entry per line handled by stage 1
    scores,           \* history: what the scorers gave, per record scored
    pc,               \* position of process_file
    runs,             \* number of process_file calls started
    kenlm_model,      \* ProcessingPipeline.kenlm_model is loaded
    use_llm,          \* ProcessingPipeline.use_llm and llm_calculator
    model_loaded,     \* PerplexityCalculator._model_loaded
    load_attempts,    \* from_pretrained attempts made by this scorer
    sleeps,           \* time.sleep delays of this scorer, in order
    infile,           \* lines of the input file read so far in this run
    phase1_out,       \* records written to <stem>_phase1.jsonl
    phase2_out,       \* records written to <stem>_phase2.jsonl
    phase2_output,    \* the file the local phase2_output names
    final_out,        \* records written to output_path
    idx,              \* records of the current stage's input consumed
    total_processed,  \* local of the running stage
    total_kept,       \* local of the running stage
    total_filtered,   \* local of the running stage (stages 2 and 3)
    report,           \* sections built so far / returned by process_file
    raised,           \* exception that left process_file, or "none"
    nx, nrep, npass,  \* normalisation harness: input, max_repeat_chars, passes
    lfrags, lres      \* log-detector harness: input fragments, result

vars == <<seen_texts, stats, calls, scores, pc, runs, kenlm_model, use_llm,
          model_loaded, load_attempts, sleeps, infile, phase1_out,
          phase2_out, phase2_output, final_out, idx, total_processed, total_kept,
          total_filtered, report, raised, nx, nrep, npass, lfrags, lres>>

pipeVars == <<seen_texts, stats, calls, scores, pc, runs, kenlm_model, use_llm,
              model_loaded, load_attempts, sleeps, infile, phase1_out,
              phase2_out, phase2_output, final_out, idx, total_processed, total_kept,
              total_filtered, report, raised>>

normVars == <<nx, nrep, npass>>

logVars == <<lfrags, lres>>

----------------------------------------------------------------------------
(* Generic sequence helpers.                                               *)

Range(s) == {s[k] : k \in 1..Len(s)}

\* s[a..b], empty when a > b.
Slice(s, a, b) == IF a > b THEN <<>> ELSE SubSeq(s, a, b)

\* lit occurs in s starting at position p.
LitAt(s, p, lit) ==
    /\ p >= 1
    /\ p + Len(lit) - 1 <= Len(s)
    /\ \A k \in 1..Len(lit) : s[p + k - 1] = lit[k]

\* Python's `lit in s` for strings.
Contains(s, lit) == \E p \in 1..(Len(s) + 1) : LitAt(s, p, lit)

----------------------------------------------------------------------------
(* Character classes.                                                      *)

\* str.isspace() / the regex class \s on str patterns.
IsSpace(c) ==
    \/ c \in 9..13
    \/ c \in 28..32
    \/ c \in {133, 160, 5760, 8232, 8233, 8239, 8287, 12288}
    \/ c \in 8192..8202

\* text.strip()
Strip(s) ==
    LET nonws == {k \in 1..Len(s) : ~IsSpace(s[k])}
    IN  IF nonws = {} THEN <<>>
        ELSE LET lo == CHOOSE k \in nonws : \A m \in nonws : k <= m
                 hi == CHOOSE k \in nonws : \A m \in nonws : k >= m
             IN  SubSeq(s, lo, hi)

RECURSIVE CollapseFrom(_, _)
\* re.sub(r'\s+', ' ', s) from position p on: every maximal whitespace run
\* becomes one U+0020.
CollapseFrom(s, p) ==
    IF p > Len(s) THEN <<>>
    ELSE IF IsSpace(s[p])
         THEN IF p > 1 /\ IsSpace(s[p - 1])
              THEN CollapseFrom(s, p + 1)
              ELSE <<32>> \o CollapseFrom(s, p + 1)
         ELSE <<s[p]>> \o CollapseFrom(s, p + 1)

----------------------------------------------------------------------------
(* CorpusCleaner configuration (cleaner.py, __init__).  The defaults of    *)
(* the code, except max_length, which the run configures to 44.  A ratio   *)
(* is a pair <<numerator, denominator>>; count / total is compared with it *)
(* by cross-multiplication, which agrees with the float comparison of the  *)
(* code for the totals reached here.                                       *)

min_length == 10
max_length == 44
max_special_char_ratio == <<3, 10>>
max_code_ratio == <<2, 10>>
max_emoji_ratio == <<1, 10>>
max_repeat_chars == 3
max_sentence_length == 500
require_sentence_end == TRUE
min_sentence_end_ratio == <<7, 10>>
min_hiragana_ratio == <<3, 10>>
max_hiragana_ratio == <<8, 10>>
min_kanji_ratio == <<1, 10>>
max_kanji_ratio == <<5, 10>>

\* a / b > r and a / b < r, for b > 0.
RatioGt(a, b, r) == a * r[2] > r[1] * b
RatioLt(a, b, r) == a * r[2] < r[1] * b

\* ProcessingPipeline.text_field: 'content'.
text_field == <<99, 111, 110, 116, 101, 110, 116>>

----------------------------------------------------------------------------
(* Length and duplicate checks.                                            *)

\* Mutant of _check_length: the bounds taken as exclusive.
_check_length_exclusive(text) ==
    IF Len(text) <= min_length THEN FALSE
    ELSE IF Len(text) >= max_length THEN FALSE
    ELSE TRUE

\* _check_length: the result only.
_check_length(text) ==
    IF Len(text) < min_length THEN FALSE
    ELSE IF Len(text) > max_length THEN FALSE
    ELSE TRUE

\* Mutant of Fingerprint: the strip() forgotten.
Fingerprint_unstripped(text) == CollapseFrom(text, 1)

\* The fingerprint of _check_duplicate: re.sub(r'\s+', ' ', text.strip()).
Fingerprint(text) == CollapseFrom(Strip(text), 1)

\* A duplicate check that remembers only the last text it let through.
_check_duplicate_last_only(text, seen) ==
    LET normalized == Fingerprint(text)
    IN  IF normalized \in seen
        THEN <<FALSE, seen>>
        ELSE <<TRUE, {normalized}>>

\* _check_duplicate: <<result, seen_texts afterwards>>.
_check_duplicate(text, seen) ==
    LET normalized == Fingerprint(text)
    IN  IF normalized \in seen
        THEN <<FALSE, seen>>
        ELSE <<TRUE, seen \cup {normalized}>>

----------------------------------------------------------------------------
(* Impurity detectors.                                                     *)

\* The regex class \w on str patterns, for the blocks the modelled texts
\* draw from: ASCII, hiragana, katakana, CJK ideographs, fullwidth forms.
IsWord(c) ==
    \/ c \in 48..57 \/ c \in 65..90 \/ c = 95 \/ c \in 97..122
    \/ c \in 12353..12438 \/ c \in 12449..12538 \/ c \in 12540..12543
    \/ c \in 19968..40959
    \/ c \in 65296..65305 \/ c \in 65313..65338 \/ c \in 65345..65370

\* The regex class \d on str patterns (ASCII and fullwidth digits).
IsDigit(c) == c \in 48..57 \/ c \in 65296..65305

\* Last position of the maximal whitespace run starting at p (p - 1: none).
SpaceRunEnd(s, p) ==
    LET stop == {k \in p..Len(s) : ~IsSpace(s[k])}
    IN  IF stop = {} THEN Len(s)
        ELSE (CHOOSE k \in stop : \A m \in stop : k <= m) - 1

\* Last position of the maximal \w run starting at p (p - 1: none).
WordRunEnd(s, p) ==
    LET stop == {k \in p..Len(s) : ~IsWord(s[k])}
    IN  IF stop = {} THEN Len(s)
        ELSE (CHOOSE k \in stop : \A m \in stop : k <= m) - 1

\* One pattern character against one text character under re.IGNORECASE.
CharEqI(c, l) ==
    \/ c = l
    \/ l \in 97..122 /\ c = l - 32
    \/ l = 105 /\ c \in {304, 305}
    \/ l = 115 /\ c = 383

LitAtI(s, p, lit) ==
    /\ p + Len(lit) - 1 <= Len(s)
    /\ \A k \in 1..Len(lit) : CharEqI(s[p + k - 1], lit[k])

\* code_patterns of _has_too_much_code, in order.  Each is a keyword kw,
\* then whitespace (sp: -1 none, 0 for \s*, 1 for \s+), then \w+ if word,
\* then \s* if sp2, then the character close if close # 0.
code_patterns == <<
    [kw |-> <<100,101,102>>, sp |-> 1, word |-> TRUE, sp2 |-> TRUE, close |-> 40],
    [kw |-> <<99,108,97,115,115>>, sp |-> 1, word |-> TRUE, sp2 |-> FALSE, close |-> 0],
    [kw |-> <<105,109,112,111,114,116>>, sp |-> 1, word |-> TRUE, sp2 |-> FALSE, close |-> 0],
    [kw |-> <<35,105,110,99,108,117,100,101>>, sp |-> 0, word |-> FALSE, sp2 |-> FALSE, close |-> 60],
    [kw |-> <<102,117,110,99,116,105,111,110>>, sp |-> 1, word |-> TRUE, sp2 |-> TRUE, close |-> 40],
    [kw |-> <<99,111,110,115,116>>, sp |-> 1, word |-> TRUE, sp2 |-> TRUE, close |-> 61],
    [kw |-> <<108,101,116>>, sp |-> 1, word |-> TRUE, sp2 |-> TRUE, close |-> 61],
    [kw |-> <<118,97,114>>, sp |-> 1, word |-> TRUE, sp2 |-> TRUE, close |-> 61],
    [kw |-> <<60,63,112,104,112>>, sp |-> -1, word |-> FALSE, sp2 |-> FALSE, close |-> 0],
    [kw |-> <<60,63,61>>, sp |-> -1, word |-> FALSE, sp2 |-> FALSE, close |-> 0],
    [kw |-> <<96,96,96>>, sp |-> -1, word |-> FALSE, sp2 |-> FALSE, close |-> 0],
    [kw |-> <<96,96,96>>, sp |-> -1, word |-> TRUE, sp2 |-> FALSE, close |-> 0] >>

\* Last position of the match of pat that starts at p, or 0 if none starts
\* there.  The classes \s, \w and the closing characters are disjoint, so
\* the greedy runs are the only candidates.
CodeMatchEnd(s, p, pat) ==
    LET a   == p + Len(pat.kw)
        e1  == IF pat.sp = -1 THEN a - 1 ELSE SpaceRunEnd(s, a)
        ok1 == pat.sp = -1 \/ e1 - a + 1 >= pat.sp
        b   == e1 + 1
        e2  == IF pat.word THEN WordRunEnd(s, b) ELSE b - 1
        ok2 == ~pat.word \/ e2 >= b
        c   == e2 + 1
        e3  == IF pat.sp2 THEN SpaceRunEnd(s, c) ELSE c - 1
        d   == e3 + 1
        ok3 == pat.close = 0 \/ (d <= Len(s) /\ s[d] = pat.close)
    IN  IF LitAtI(s, p, pat.kw) /\ ok1 /\ ok2 /\ ok3
        THEN (IF pat.close = 0 THEN e3 ELSE d)
        ELSE 0

\* line_end - line_start for a match s[p..e]: line_start is the 0-based
\* index of the last newline before the match or -1, line_end the 0-based
\* index of the first newline at or after match.end() or len(text).
LineSpan(s, p, e) ==
    LET before == {k \in 1..(p - 1) : s[k] = 10}
        after  == {k \in (e + 1)..Len(s) : s[k] = 10}
        line_start == IF before = {} THEN -1
                      ELSE (CHOOSE k \in before : \A m \in before : k >= m) - 1
        line_end   == IF after = {} THEN Len(s)
                      ELSE (CHOOSE k \in after : \A m \in after : k <= m) - 1
    IN  line_end - line_start

RECURSIVE CodeCountFrom(_, _, _)
\* The contribution of re.finditer(pat, s) to code_char_count, scanning
\* from position pos: leftmost match, then on after its end.
CodeCountFrom(s, pos, pat) ==
    LET starts == {p \in pos..Len(s) : CodeMatchEnd(s, p, pat) # 0}
    IN  IF starts = {} THEN 0
        ELSE LET p == CHOOSE q \in starts : \A m \in starts : q <= m
                 e == CodeMatchEnd(s, p, pat)
             IN  LineSpan(s, p, e) + CodeCountFrom(s, e + 1, pat)

RECURSIVE CodeCharCount(_, _)
\* code_char_count after the patterns k..12.
CodeCharCount(s, k) ==
    IF k > Len(code_patterns) THEN 0
    ELSE CodeCountFrom(s, 1, code_patterns[k]) + CodeCharCount(s, k + 1)

_has_too_much_code(text) ==
    IF Len(text) = 0 THEN FALSE
    ELSE RatioGt(CodeCharCount(text, 1), Len(text), max_code_ratio)

\* Pattern 1 of log_patterns at p: \d{4}-\d{2}-\d{2}\s+\d{2}:\d{2}:\d{2}
LogTimestampAt(s, p) ==
    LET Digits(a, n) == \A k \in a..(a + n - 1) : k <= Len(s) /\ IsDigit(s[k])
        Is(a, ch)    == a <= Len(s) /\ s[a] = ch
        e == SpaceRunEnd(s, p + 10)
    IN  /\ Digits(p, 4) /\ Is(p + 4, 45)
        /\ Digits(p + 5, 2) /\ Is(p + 7, 45)
        /\ Digits(p + 8, 2)
        /\ e >= p + 10
        /\ Digits(e + 1, 2) /\ Is(e + 3, 58)
        /\ Digits(e + 4, 2) /\ Is(e + 6, 58)
        /\ Digits(e + 7, 2)

\* Pattern 2 at p: \[(DEBUG|INFO|WARN|ERROR|FATAL)\]
LogLevelAt(s, p) ==
    \E w \in {<<68,69,66,85,71>>, <<73,78,70,79>>, <<87,65,82,78>>,
              <<69,82,82,79,82>>, <<70,65,84,65,76>>} :
        LitAt(s, p, <<91>> \o w \o <<93>>)

\* Pattern 3 at p: ERROR:
LogErrorAt(s, p) == LitAt(s, p, <<69,82,82,79,82,58>>)

\* Pattern 4 at p: Exception:
LogExceptionAt(s, p) == LitAt(s, p, <<69,120,99,101,112,116,105,111,110,58>>)

\* Pattern 5 at p: Traceback\s+\(most recent call last\)
LogTracebackAt(s, p) ==
    LET e == SpaceRunEnd(s, p + 9)
    IN  /\ LitAt(s, p, <<84,114,97,99,101,98,97,99,107>>)
        /\ e >= p + 9
        /\ LitAt(s, e + 1, <<40,109,111,115,116,32,114,101,99,101,110,116,32,
                             99,97,108,108,32,108,97,115,116,41>>)

\* log_patterns[k] matches s starting at p.
LogPatternAt(s, p, k) ==
    CASE k = 1 -> LogTimestampAt(s, p)
      [] k = 2 -> LogLevelAt(s, p)
      [] k = 3 -> LogErrorAt(s, p)
      [] k = 4 -> LogExceptionAt(s, p)
      [] k = 5 -> LogTracebackAt(s, p)

NumLogPatterns == 5

\* The number of matches of log_patterns[k] in s (what counting matches
\* instead of patterns would add).
LogMatches(s, k) == Cardinality({p \in 1..Len(s) : LogPatternAt(s, p, k)})

\* The term of the generator sum for log_patterns[k]:
\* 1 if re.search(pattern, text) else nothing.
LogHit(s, k) == IF \E p \in 1..Len(s) : LogPatternAt(s, p, k) THEN 1 ELSE 0

RECURSIVE LogMatchCount(_, _)
\* match_count over the patterns k..5.
LogMatchCount(s, k) ==
    IF k > NumLogPatterns THEN 0
    ELSE LogHit(s, k) + LogMatchCount(s, k + 1)

_looks_like_log(text) == LogMatchCount(text, 1) >= 3

\* special_chars of _has_too_many_special_chars: !@#$%^&*()_+-=[]{}|;:,.<>?/~`
special_chars ==
    {33, 35, 36, 37, 38, 40, 41, 42, 43, 44, 45, 46, 47, 58, 59, 60, 61, 62,
     63, 64, 91, 93, 94, 95, 96, 123, 124, 125, 126}

_has_too_many_special_chars(text) ==
    IF Len(text) = 0 THEN FALSE
    ELSE LET special_count ==
                 Cardinality({k \in 1..Len(text) : text[k] \in special_chars})
         IN  RatioGt(special_count, Len(text), max_special_char_ratio)

\* The character class of emoji_pattern.
IsEmoji(c) ==
    \/ c \in 128512..128591      \* 1F600-1F64F
    \/ c \in 127744..128511      \* 1F300-1F5FF
    \/ c \in 128640..128767      \* 1F680-1F6FF
    \/ c \in 127462..127487      \* 1F1E0-1F1FF
    \/ c \in 9986..10160         \* 2702-27B0
    \/ c \in 9410..127569        \* 24C2-1F251
    \/ c \in 129280..129535      \* 1F900-1F9FF
    \/ c \in 129536..129647      \* 1FA00-1FA6F
    \/ c \in 129648..129791      \* 1FA70-1FAFF

\* len(emoji_pattern.findall(text)): the pattern is [...]+, so one match
\* per maximal run of class characters.
EmojiCount(text) ==
    Cardinality({k \in 1..Len(text) :
                    IsEmoji(text[k]) /\ (k = 1 \/ ~IsEmoji(text[k - 1]))})

_has_too_many_emojis(text) ==
    IF Len(text) = 0 THEN FALSE
    ELSE RatioGt(EmojiCount(text), Len(text), max_emoji_ratio)

\* _has_too_much_html.  BeautifulSoup's html.parser finds no element in a
\* text without '<'; for a text with one, what it finds is the library's
\* answer, htm, an input of the call.
_has_too_much_html(text, htm) ==
    IF 60 \notin Range(text) THEN FALSE ELSE htm

\* _check_impurities
_check_impurities(text, htm) ==
    IF _has_too_much_html(text, htm) THEN FALSE
    ELSE IF _has_too_much_code(text) THEN FALSE
    ELSE IF _looks_like_log(text) THEN FALSE
    ELSE IF _has_too_many_special_chars(text) THEN FALSE
    ELSE IF _has_too_many_emojis(text) THEN FALSE
    ELSE TRUE

----------------------------------------------------------------------------
(* Structural checks.                                                      *)

\* The split characters of _check_sentence_structure: 。！？
sentence_marks == {12290, 65281, 65311}

\* _check_sentence_structure.  re.split with a capturing group yields the
\* segments between marks and the marks; a segment whose strip() is not
\* empty becomes a sentence, closed by the mark that follows it, and the
\* segment after the last mark becomes a sentence with no end mark.
_check_sentence_structure(text) ==
    LET marks == {k \in 1..Len(text) : text[k] \in sentence_marks}
        Prev(k) == LET lower == {m \in marks : m < k}
                   IN  IF lower = {} THEN 0
                       ELSE CHOOSE m \in lower : \A q \in lower : m >= q
        Segment(k) == Strip(Slice(text, Prev(k) + 1, k - 1))
        closed == {k \in marks : Segment(k) # <<>>}
        last == Segment(Len(text) + 1)
        completed_sentences == Cardinality(closed)
        total_sentences == completed_sentences + (IF last # <<>> THEN 1 ELSE 0)
    IN  IF total_sentences = 0 THEN FALSE
        ELSE IF \/ \E k \in closed : Len(Segment(k)) > max_sentence_length
                \/ Len(last) > max_sentence_length
             THEN FALSE
        ELSE IF /\ require_sentence_end
                /\ RatioLt(completed_sentences, total_sentences,
                           min_sentence_end_ratio)
             THEN FALSE
        ELSE TRUE

\* _check_japanese_character_ratio
_check_japanese_character_ratio(text) ==
    LET Count(lo, hi) ==
            Cardinality({k \in 1..Len(text) : text[k] \in lo..hi})
        hiragana_count == Count(12352, 12447)      \* 3040-309F
        katakana_count == Count(12448, 12543)      \* 30A0-30FF
        kanji_count    == Count(19968, 40959)      \* 4E00-9FFF
        total_japanese_chars == hiragana_count + katakana_count + kanji_count
    IN  IF Len(text) = 0 THEN FALSE
        ELSE IF total_japanese_chars < 10 THEN FALSE
        ELSE IF \/ RatioLt(hiragana_count, Len(text), min_hiragana_ratio)
                \/ RatioGt(hiragana_count, Len(text), max_hiragana_ratio)
             THEN FALSE
        ELSE IF \/ RatioLt(kanji_count, Len(text), min_kanji_ratio)
                \/ RatioGt(kanji_count, Len(text), max_kanji_ratio)
             THEN FALSE
        ELSE TRUE

----------------------------------------------------------------------------
(* Normalisation.                                                          *)

\* The translation table and the replace of _convert_fullwidth_to_halfwidth.
HalfwidthOf(c) ==
    IF c \in 65313..65338 \/ c \in 65345..65370 \/ c \in 65296..65305
    THEN c - 65248
    ELSE IF c = 12288 THEN 32
    ELSE c

_convert_fullwidth_to_halfwidth(text) ==
    [k \in 1..Len(text) |-> HalfwidthOf(text[k])]

RECURSIVE UnifyNewlines(_, _)
\* text.replace('\r\n', '\n').replace('\r', '\n'), from position p.
UnifyNewlines(s, p) ==
    IF p > Len(s) THEN <<>>
    ELSE IF s[p] = 13
         THEN IF p < Len(s) /\ s[p + 1] = 10
              THEN <<10>> \o UnifyNewlines(s, p + 2)
              ELSE <<10>> \o UnifyNewlines(s, p + 1)
         ELSE <<s[p]>> \o UnifyNewlines(s, p + 1)

RECURSIVE LimitNewlines(_, _)
\* re.sub(r'\n{3,}', '\n\n', s), from position p: the third and later
\* newlines of a run are dropped.
LimitNewlines(s, p) ==
    IF p > Len(s) THEN <<>>
    ELSE IF s[p] = 10 /\ p >= 3 /\ s[p - 1] = 10 /\ s[p - 2] = 10
         THEN LimitNewlines(s, p + 1)
         ELSE <<s[p]>> \o LimitNewlines(s, p + 1)

RECURSIVE SplitLines(_, _)
\* s.split('\n') from position p: a sequence of lines.
SplitLines(s, p) ==
    LET nl == {k \in p..Len(s) : s[k] = 10}
    IN  IF nl = {} THEN << Slice(s, p, Len(s)) >>
        ELSE LET k == CHOOSE q \in nl : \A m \in nl : q <= m
             IN  << Slice(s, p, k - 1) >> \o SplitLines(s, k + 1)

RECURSIVE JoinLines(_, _)
\* '\n'.join(lines), from line i.
JoinLines(lines, i) ==
    IF i > Len(lines) THEN <<>>
    ELSE IF i = Len(lines) THEN lines[i]
    ELSE lines[i] \o <<10>> \o JoinLines(lines, i + 1)

\* re.match(r'^#{1,6}\s+', line)
IsHeading(line) ==
    LET other == {k \in 1..Len(line) : line[k] # 35}
        n == IF other = {} THEN Len(line)
             ELSE (CHOOSE k \in other : \A m \in other : k <= m) - 1
    IN  n \in 1..6 /\ n < Len(line) /\ IsSpace(line[n + 1])

\* re.search(r'[。、！？]$', prev_line), for a line without newline.
EndsSentence(line) ==
    Len(line) > 0 /\ line[Len(line)] \in {12290, 12289, 65281, 65311}

RECURSIVE Reflow_no_first_line(_, _, _)
\* A loop whose last branch (`else: normalized_lines.append(line)`) is
\* missing: a line that has no line before it is dropped.
Reflow_no_first_line(lines, i, normalized_lines) ==
    IF i > Len(lines) THEN normalized_lines
    ELSE
      LET line == Strip(lines[i])
          n    == Len(normalized_lines)
          prevNonEmpty == n > 0 /\ normalized_lines[n] # <<>>
      IN  IF line = <<>>
          THEN IF prevNonEmpty
               THEN Reflow_no_first_line(lines, i + 1,
                                         Append(normalized_lines, <<>>))
               ELSE Reflow_no_first_line(lines, i + 1, normalized_lines)
          ELSE IF IsHeading(line)
          THEN Reflow_no_first_line(lines, i + 1,
                                    Append(normalized_lines, line))
          ELSE IF prevNonEmpty
          THEN IF EndsSentence(normalized_lines[n])
               THEN Reflow_no_first_line(lines, i + 1,
                                         Append(normalized_lines, line))
               ELSE Reflow_no_first_line(lines, i + 1,
                      [normalized_lines EXCEPT
                          ![n] = normalized_lines[n] \o <<32>> \o line])
          ELSE Reflow_no_first_line(lines, i + 1, normalized_lines)

RECURSIVE Reflow(_, _, _)
\* The loop of _normalize_newlines over lines[i..], normalized_lines so far.
Reflow(lines, i, normalized_lines) ==
    IF i > Len(lines) THEN normalized_lines
    ELSE
      LET line == Strip(lines[i])
          n    == Len(normalized_lines)
          prevNonEmpty == n > 0 /\ normalized_lines[n] # <<>>
      IN  IF line = <<>>
          THEN IF prevNonEmpty
               THEN Reflow(lines, i + 1, Append(normalized_lines, <<>>))
               ELSE Reflow(lines, i + 1, normalized_lines)
          ELSE IF IsHeading(line)
          THEN Reflow(lines, i + 1, Append(normalized_lines, line))
          ELSE IF prevNonEmpty
          THEN IF EndsSentence(normalized_lines[n])
               THEN Reflow(lines, i + 1, Append(normalized_lines, line))
               ELSE Reflow(lines, i + 1,
                      [normalized_lines EXCEPT
                          ![n] = normalized_lines[n] \o <<32>> \o line])
          ELSE Reflow(lines, i + 1, Append(normalized_lines, line))

_normalize_newlines(text) ==
    LET unified == LimitNewlines(UnifyNewlines(text, 1), 1)
    IN  JoinLines(Reflow(SplitLines(unified, 1), 1, <<>>), 1)

RECURSIVE LimitRepeats(_, _, _)
\* re.sub(r'(.)\1{n,}', r'\1' * n, s), from position p: of a run of one
\* character other than newline, the copies after the n-th are dropped.
LimitRepeats(s, p, n) ==
    IF p > Len(s) THEN <<>>
    ELSE IF /\ s[p] # 10
            /\ p > n
            /\ \A k \in 1..n : s[p - k] = s[p]
         THEN LimitRepeats(s, p + 1, n)
         ELSE <<s[p]>> \o LimitRepeats(s, p + 1, n)

\* The two glyph classes of ascii_art_patterns: 2500-254F and 2550-256C.
ascii_art_patterns == << 9472..9551, 9552..9580 >>

RECURSIVE StripRuns(_, _, _)
\* re.sub('[class]{3,}', '', s), from position p: every maximal run of 3 or
\* more class characters is removed.
StripRuns(s, p, class) ==
    IF p > Len(s) THEN <<>>
    ELSE IF s[p] \notin class THEN <<s[p]>> \o StripRuns(s, p + 1, class)
    ELSE LET stop == {k \in p..Len(s) : s[k] \notin class}
             e == IF stop = {} THEN Len(s)
                  ELSE (CHOOSE k \in stop : \A m \in stop : k <= m) - 1
         IN  IF e - p + 1 >= 3
             THEN StripRuns(s, e + 1, class)
             ELSE Slice(s, p, e) \o StripRuns(s, e + 1, class)

\* _normalize_broken_notation, with max_repeat_chars = n.
_normalize_broken_notation(text, n) ==
    LET limited == LimitRepeats(text, 1, n)
        first   == StripRuns(limited, 1, ascii_art_patterns[1])
    IN  StripRuns(first, 1, ascii_art_patterns[2])

\* _normalize_text, with max_repeat_chars = n.
_normalize_text(text, n) ==
    _normalize_broken_notation(
        _normalize_newlines(_convert_fullwidth_to_halfwidth(text)), n)

----------------------------------------------------------------------------
(* Records.  A JSON value is [ty, s, n]: a string with characters s, or a  *)
(* number n.  An entry (a JSON object) is a function from field names to   *)
(* values.  A line of the input is [kind, str, obj]: "invalid" (json.loads *)
(* raises JSONDecodeError), "scalar" (a number, null, true or false),      *)
(* "string" (a JSON string with characters str) or "object" (entry obj).   *)

Str(chars) == [ty |-> "str", s |-> chars, n |-> 0]
Num(k) == [ty |-> "num", s |-> <<>>, n |-> k]

id_field == <<105, 100>>

NoEntry == [f \in {} |-> Num(0)]

InvalidLine == [kind |-> "invalid", str |-> <<>>, obj |-> NoEntry]
ScalarLine == [kind |-> "scalar", str |-> <<>>, obj |-> NoEntry]
StringLine(chars) == [kind |-> "string", str |-> chars, obj |-> NoEntry]
ObjectLine(entry) == [kind |-> "object", str |-> <<>>, obj |-> entry]

\* {"content": <text>, "id": 7}
TextLine(text) ==
    ObjectLine([f \in {text_field, id_field} |->
                   IF f = text_field THEN Str(text) ELSE Num(7)])

\* The counters CorpusCleaner.clean and stage 1 increment.
RejectCounters ==
    {"missing_text_field", "invalid_text_type", "length_filtered",
     "duplicate_filtered", "impurity_filtered", "sentence_structure_filtered",
     "japanese_character_ratio_filtered", "json_decode_error"}

Counters == RejectCounters \cup {"kept"}

\* self.stats[name] += 1 on the defaultdict(int).
Bump(st, name) == [st EXCEPT ![name] = @ + 1]

----------------------------------------------------------------------------
(* CorpusCleaner.clean.                                                    *)

\* What one call leaves: whether it raised, the counter it incremented,
\* the entry it returned (ret = "entry") or None, and the cleaner's state.
Rejected(line, seen, st, name) ==
    [raised |-> FALSE, counter |-> name, ret |-> "None", entry |-> line.obj,
     seen |-> seen, stats |-> Bump(st, name)]

\* A TypeError leaves clean: nothing was counted.
Raises(line, seen, st) ==
    [raised |-> TRUE, counter |-> "", ret |-> "None", entry |-> line.obj,
     seen |-> seen, stats |-> st]

\* A clean() that returns the entry with its raw text (no assignment at
\* cleaner.py:80-81).
Kept_raw(line, seen, st) ==
    [raised |-> FALSE, counter |-> "kept", ret |-> "entry",
     entry |-> line.obj, seen |-> seen, stats |-> Bump(st, "kept")]

\* entry[text_field] = normalized_text; stats['kept'] += 1; return entry
Kept(line, seen, st) ==
    LET text == line.obj[text_field].s
        normalized_text == _normalize_text(text, max_repeat_chars)
    IN  [raised |-> FALSE, counter |-> "kept", ret |-> "entry",
         entry |-> [line.obj EXCEPT ![text_field] = Str(normalized_text)],
         seen |-> seen, stats |-> Bump(st, "kept")]

\* A clean() that adds the fingerprint to the index only for a text it keeps.
clean_insert_on_keep(line, seen, st, htm) ==
    IF line.kind = "scalar"
    THEN Raises(line, seen, st)           \* `text_field not in 5`
    ELSE IF line.kind = "string"
    THEN IF ~Contains(line.str, text_field)
         THEN Rejected(line, seen, st, "missing_text_field")
         ELSE Raises(line, seen, st)      \* `"..."[text_field]`
    ELSE IF text_field \notin DOMAIN line.obj
    THEN Rejected(line, seen, st, "missing_text_field")
    ELSE IF line.obj[text_field].ty # "str"
    THEN Rejected(line, seen, st, "invalid_text_type")
    ELSE
      LET text == line.obj[text_field].s
          dup  == _check_duplicate(text, seen)
      IN  IF ~_check_length(text)
          THEN Rejected(line, seen, st, "length_filtered")
          ELSE IF ~dup[1]
          THEN Rejected(line, dup[2], st, "duplicate_filtered")
          ELSE IF ~_check_impurities(text, htm)
          THEN Rejected(line, seen, st, "impurity_filtered")
          ELSE IF ~_check_sentence_structure(text)
          THEN Rejected(line, seen, st, "sentence_structure_filtered")
          ELSE IF ~_check_japanese_character_ratio(text)
          THEN Rejected(line, seen, st, "japanese_character_ratio_filtered")
          ELSE Kept(line, dup[2], st)

\* A clean() that hands the duplicate check the normalized text.
clean_dedup_normalized(line, seen, st, htm) ==
    IF line.kind = "scalar"
    THEN Raises(line, seen, st)           \* `text_field not in 5`
    ELSE IF line.kind = "string"
    THEN IF ~Contains(line.str, text_field)
         THEN Rejected(line, seen, st, "missing_text_field")
         ELSE Raises(line, seen, st)      \* `"..."[text_field]`
    ELSE IF text_field \notin DOMAIN line.obj
    THEN Rejected(line, seen, st, "missing_text_field")
    ELSE IF line.obj[text_field].ty # "str"
    THEN Rejected(line, seen, st, "invalid_text_type")
    ELSE
      LET text == line.obj[text_field].s
          dup  == _check_duplicate(
                      _normalize_text(text, max_repeat_chars), seen)
      IN  IF ~_check_length(text)
          THEN Rejected(line, seen, st, "length_filtered")
          ELSE IF ~dup[1]
          THEN Rejected(line, dup[2], st, "duplicate_filtered")
          ELSE IF ~_check_impurities(text, htm)
          THEN Rejected(line, dup[2], st, "impurity_filtered")
          ELSE IF ~_check_sentence_structure(text)
          THEN Rejected(line, dup[2], st, "sentence_structure_filtered")
          ELSE IF ~_check_japanese_character_ratio(text)
          THEN Rejected(line, dup[2], st, "japanese_character_ratio_filtered")
          ELSE Kept(line, dup[2], st)

\* clean(entry, text_field) on the value json.loads gave for the line, with
\* the cleaner's seen_texts = seen and stats = st; htm is the answer of the
\* markup parser, read only if the text holds a '<'.
clean(line, seen, st, htm) ==
    IF line.kind = "scalar"
    THEN Raises(line, seen, st)           \* `text_field not in 5`
    ELSE IF line.kind = "string"
    THEN IF ~Contains(line.str, text_field)
         THEN Rejected(line, seen, st, "missing_text_field")
         ELSE Raises(line, seen, st)      \* `"..."[text_field]`
    ELSE IF text_field \notin DOMAIN line.obj
    THEN Rejected(line, seen, st, "missing_text_field")
    ELSE IF line.obj[text_field].ty # "str"
    THEN Rejected(line, seen, st, "invalid_text_type")
    ELSE
      LET text == line.obj[text_field].s
          dup  == _check_duplicate(text, seen)
      IN  IF ~_check_length(text)
          THEN Rejected(line, seen, st, "length_filtered")
          ELSE IF ~dup[1]
          THEN Rejected(line, dup[2], st, "duplicate_filtered")
          ELSE IF ~_check_impurities(text, htm)
          THEN Rejected(line, dup[2], st, "impurity_filtered")
          ELSE IF ~_check_sentence_structure(text)
          THEN Rejected(line, dup[2], st, "sentence_structure_filtered")
          ELSE IF ~_check_japanese_character_ratio(text)
          THEN Rejected(line, dup[2], st, "japanese_character_ratio_filtered")
          ELSE Kept(line, dup[2], st)

----------------------------------------------------------------------------
(* Stage 2 and stage 3 decisions.                                          *)

\* entry.get(self.text_field, '')
EntryText(entry) ==
    IF text_field \in DOMAIN entry THEN entry[text_field] ELSE Str(<<>>)

\* `not text` for the value read from the entry.
Falsy(v) == IF v.ty = "str" THEN v.s = <<>> ELSE v.n = 0

\* len(text.split())
WordCount(text) ==
    Cardinality({k \in 1..Len(text) :
                    ~IsSpace(text[k]) /\ (k = 1 \/ IsSpace(text[k - 1]))})

\* What the body of the stage 2 loop does with one decoded entry: "skip"
\* (continue, nothing counted), "kept" (written, total_kept += 1) or
\* "filtered" (total_filtered += 1).  scored is what kenlm_model.score did:
\* "raise", or a score whose perplexity is "low" (<= max_kenlm_perplexity)
\* or "high".
Phase2Decision(entry, scored) ==
    LET text == EntryText(entry)
    IN  IF Falsy(text) THEN "skip"
        ELSE IF text.ty # "str" \/ scored = "raise" THEN "filtered"
        ELSE IF WordCount(text.s) > 0
             THEN IF scored = "low" THEN "kept" ELSE "filtered"
        ELSE "filtered"

max_retries == 3
retry_delay == 5

RECURSIVE LoadAttempts(_, _, _)
\* The loop of _load_model from iteration attempt on, when the first fails
\* calls of from_pretrained raise: the delays slept, and the outcome.
LoadAttempts(attempt, delay, fails) ==
    IF attempt >= fails
    THEN [loaded |-> TRUE, attempts |-> attempt + 1, slept |-> <<>>]
    ELSE IF attempt < max_retries - 1
    THEN LET rest == LoadAttempts(attempt + 1, delay * 2, fails)
         IN  [rest EXCEPT !.slept = <<delay>> \o @]
    ELSE [loaded |-> FALSE, attempts |-> attempt + 1, slept |-> <<>>]

\* A _load_model whose delay stays at retry_delay (no `retry_delay *= 2`).
_load_model_constant_delay(fails) ==
    LET l == LoadAttempts(0, retry_delay, fails)
    IN  [l EXCEPT !.slept = [k \in DOMAIN l.slept |-> retry_delay]]

\* _load_model
_load_model(fails) == LoadAttempts(0, retry_delay, fails)

\* calculate_perplexity(text): the score ("None", "low", "high") or the
\* RuntimeError of a failed load, with the scorer's state afterwards.
\* fails is the number of failing from_pretrained calls ahead, computed is
\* what the forward pass gave: "None" (it raised), "low" or "high".
calculate_perplexity(text, loaded, fails, computed) ==
    IF text = <<>> \/ Strip(text) = <<>>
    THEN [score |-> "None", loaded |-> loaded, attempts |-> 0, slept |-> <<>>]
    ELSE IF loaded
    THEN [score |-> computed, loaded |-> TRUE, attempts |-> 0, slept |-> <<>>]
    ELSE LET l == _load_model(fails)
         IN  [score |-> IF l.loaded THEN computed ELSE "RuntimeError",
              loaded |-> l.loaded, attempts |-> l.attempts, slept |-> l.slept]

\* An is_high_quality that lets a missing score through.
is_high_quality_open(score) ==
    score # "high"

\* is_high_quality, given the score calculate_perplexity returned.
is_high_quality(score) ==
    IF score = "None" THEN FALSE ELSE score = "low"

----------------------------------------------------------------------------
(* Inputs: the lines an input file is made of.                             *)

\* "x"
TextX == <<120>>
\* "テスト文章です。" (8 characters)
TextTest == <<12486, 12473, 12488, 25991, 31456, 12391, 12377, 12290>>
\* the same followed by two fullwidth spaces (10 characters)
TextTestPadded == TextTest \o <<12288, 12288>>
\* "これは日本語の文章です。" (12 characters)
TextGood ==
    <<12371, 12428, 12399, 26085, 26412, 35486, 12398, 25991, 31456, 12391,
      12377, 12290>>
\* the same followed by one fullwidth space
TextGoodPadded == TextGood \o <<12288>>
\* "これはＡＢＣ日本語の文章です。", ABC in fullwidth letters
TextFullwidth ==
    <<12371, 12428, 12399, 65313, 65314, 65315, 26085, 26412, 35486, 12398,
      25991, 31456, 12391, 12377, 12290>>
\* "2024-01-01 10:00:00\n[INFO]\nERROR:\nException:" (44 characters)
TextLog ==
    <<50, 48, 50, 52, 45, 48, 49, 45, 48, 49, 32, 49, 48, 58, 48, 48, 58, 48,
      48, 10, 91, 73, 78, 70, 79, 93, 10, 69, 82, 82, 79, 82, 58, 10, 69,
      120, 99, 101, 112, 116, 105, 111, 110, 58>>
\* the same followed by "x" (45 characters)
TextLong == TextLog \o <<120>>

\* "Ａこれは日本語の文章です。", a fullwidth A in front (13 characters)
TextLeadFull == <<65313>> \o TextGood
\* "Aこれは日本語の文章です。", the same with the halfwidth A
TextLeadHalf == <<65>> \o TextGood

\* "これは日本語の文章で", no sentence end (10 characters)
TextNoEnd == SubSeq(TextGood, 1, 10)

Texts ==
    {TextX, TextTest, TextTestPadded, TextGood, TextGoodPadded,
     TextFullwidth, TextLog, TextLong,
     TextLeadFull, TextLeadHalf, TextNoEnd}

\* {"id": 7}
LineNoText == ObjectLine([f \in {id_field} |-> Num(7)])
\* {"content": 7, "id": 7}
LineNumText == ObjectLine([f \in {text_field, id_field} |-> Num(7)])
\* "abc"
LineString == StringLine(<<97, 98, 99>>)

Lines ==
    {InvalidLine, ScalarLine, LineString, LineNoText, LineNumText}
        \cup {TextLine(t) : t \in Texts}

\* Lines the cleaner handles over its lifetime, and process_file calls.
MaxLines == 2
MaxRuns == 2

----------------------------------------------------------------------------
(* ProcessingPipeline.process_file and its stages.                         *)

ZeroStats == [c \in Counters |-> 0]

\* A section of the report process_file returns.  assigned: the local that
\* holds it has been set; empty: it is the dict {}.  counters are the
\* entries of cleaner.get_stats() (stage 1 only).
NoSection ==
    [assigned |-> FALSE, empty |-> TRUE, counters |-> ZeroStats,
     total_processed |-> 0, total_kept |-> 0, total_excluded |-> 0]

EmptySection == [NoSection EXCEPT !.assigned = TRUE]

\* stats = self.cleaner.get_stats() plus the three totals of stage 1.
Phase1Stats(st, processed, kept) ==
    [assigned |-> TRUE, empty |-> FALSE, counters |-> st,
     total_processed |-> processed, total_kept |-> kept,
     total_excluded |-> processed - kept]

\* The dict stages 2 and 3 return.
FilterStats(processed, kept, filtered) ==
    [assigned |-> TRUE, empty |-> FALSE, counters |-> ZeroStats,
     total_processed |-> processed, total_kept |-> kept,
     total_excluded |-> filtered]

NoReport ==
    [returned |-> FALSE, phase1 |-> NoSection, phase2 |-> NoSection,
     phase3 |-> NoSection]

\* The file stage 3 (or the final copy) reads.
Phase2OutputFile ==
    IF phase2_output = "phase1" THEN phase1_out ELSE phase2_out

HarnessIdle == UNCHANGED <<nx, nrep, npass, lfrags, lres>>

Init ==
    /\ seen_texts = {}
    /\ stats = ZeroStats
    /\ calls = <<>>
    /\ scores = <<>>
    /\ pc = "idle"
    /\ runs = 0
    /\ kenlm_model \in BOOLEAN
    /\ use_llm \in BOOLEAN
    /\ model_loaded = FALSE
    /\ load_attempts = 0
    /\ sleeps = <<>>
    /\ infile = <<>>
    /\ phase1_out = <<>>
    /\ phase2_out = <<>>
    /\ phase2_output = "phase2"
    /\ final_out = <<>>
    /\ idx = 0
    /\ total_processed = 0
    /\ total_kept = 0
    /\ total_filtered = 0
    /\ report = NoReport
    /\ raised = "none"
    /\ nx = <<>> /\ nrep = 1 /\ npass = <<>>
    /\ lfrags = <<>> /\ lres = <<>>

\* A process_file that starts every run with an empty duplicate index and
\* zeroed counters.
StartRun_fresh_cleaner(exists) ==
    /\ pc \in {"idle", "done", "raised"}
    /\ runs < MaxRuns
    /\ runs' = runs + 1
    /\ report' = NoReport
    /\ idx' = 0
    /\ total_processed' = 0
    /\ total_kept' = 0
    /\ total_filtered' = 0
    /\ seen_texts' = {}
    /\ stats' = ZeroStats
    /\ IF exists
       THEN /\ pc' = "phase1"
            /\ raised' = "none"
            /\ infile' = <<>>
            /\ phase1_out' = <<>>
       ELSE /\ pc' = "raised"
            /\ raised' = "FileNotFoundError"
            /\ UNCHANGED <<infile, phase1_out>>
    /\ UNCHANGED <<calls, scores, kenlm_model, use_llm,
                   model_loaded, load_attempts, sleeps, phase2_out,
                   phase2_output, final_out>>
    /\ HarnessIdle

\* A process_file that opens the stage 1 output before it looks for the
\* input.
StartRun_open_first(exists) ==
    /\ pc \in {"idle", "done", "raised"}
    /\ runs < MaxRuns
    /\ runs' = runs + 1
    /\ report' = NoReport
    /\ idx' = 0
    /\ total_processed' = 0
    /\ total_kept' = 0
    /\ total_filtered' = 0
    /\ phase1_out' = <<>>
    /\ IF exists
       THEN /\ pc' = "phase1"
            /\ raised' = "none"
            /\ infile' = <<>>
       ELSE /\ pc' = "raised"
            /\ raised' = "FileNotFoundError"
            /\ UNCHANGED infile
    /\ UNCHANGED <<seen_texts, stats, calls, scores, kenlm_model, use_llm,
                   model_loaded, load_attempts, sleeps, phase2_out,
                   phase2_output, final_out>>
    /\ HarnessIdle

\* process_file is called; exists: the input file exists.  On a missing
\* input FileNotFoundError is raised before anything is opened; otherwise
\* stage 1 opens its output for writing and starts its loop.
StartRun(exists) ==
    /\ pc \in {"idle", "done", "raised"}
    /\ runs < MaxRuns
    /\ runs' = runs + 1
    /\ report' = NoReport
    /\ idx' = 0
    /\ total_processed' = 0
    /\ total_kept' = 0
    /\ total_filtered' = 0
    /\ IF exists
       THEN /\ pc' = "phase1"
            /\ raised' = "none"
            /\ infile' = <<>>
            /\ phase1_out' = <<>>
       ELSE /\ pc' = "raised"
            /\ raised' = "FileNotFoundError"
            /\ UNCHANGED <<infile, phase1_out>>
    /\ UNCHANGED <<seen_texts, stats, calls, scores, kenlm_model, use_llm,
                   model_loaded, load_attempts, sleeps, phase2_out,
                   phase2_output, final_out>>
    /\ HarnessIdle

\* One iteration of the stage 1 loop, on the next line of the input.
Phase1Line(line, htm) ==
    /\ pc = "phase1"
    /\ Len(calls) < MaxLines
    /\ infile' = Append(infile, line)
    /\ total_processed' = total_processed + 1
    /\ IF line.kind = "invalid"
       THEN /\ stats' = Bump(stats, "json_decode_error")
            /\ calls' = Append(calls,
                   [run |-> runs, line |-> line, raised |-> FALSE,
                    counter |-> "json_decode_error", ret |-> "None",
                    entry |-> line.obj])
            /\ UNCHANGED <<seen_texts, phase1_out, total_kept, pc, raised>>
       ELSE LET r == clean(line, seen_texts, stats, htm)
            IN  /\ seen_texts' = r.seen
                /\ stats' = r.stats
                /\ calls' = Append(calls,
                       [run |-> runs, line |-> line, raised |-> r.raised,
                        counter |-> r.counter, ret |-> r.ret,
                        entry |-> r.entry])
                /\ IF r.raised
                   THEN /\ pc' = "raised"
                        /\ raised' = "TypeError"
                        /\ UNCHANGED <<phase1_out, total_kept>>
                   ELSE /\ UNCHANGED <<pc, raised>>
                        /\ IF r.ret = "entry"
                           THEN /\ phase1_out' = Append(phase1_out, r.entry)
                                /\ total_kept' = total_kept + 1
                           ELSE UNCHANGED <<phase1_out, total_kept>>
    /\ UNCHANGED <<scores, runs, kenlm_model, use_llm, model_loaded,
                   load_attempts, sleeps, phase2_out, phase2_output, final_out, idx,
                   total_filtered, report>>
    /\ HarnessIdle

\* The stage 1 loop ends at the end of the input: the handles are closed
\* and _phase1_basic_cleaning returns its stats.
Phase1End ==
    /\ pc = "phase1"
    /\ report' = [report EXCEPT
                     !.phase1 = Phase1Stats(stats, total_processed, total_kept)]
    /\ pc' = "stage2"
    /\ UNCHANGED <<seen_texts, stats, calls, scores, runs, kenlm_model, use_llm,
                   model_loaded, load_attempts, sleeps, infile, phase1_out,
                   phase2_out, phase2_output, final_out, idx,
                   total_processed, total_kept, total_filtered, raised>>
    /\ HarnessIdle

\* `if self.kenlm_model:` stage 2 opens its output and starts its loop.
Phase2Start ==
    /\ pc = "stage2"
    /\ kenlm_model
    /\ pc' = "phase2"
    /\ phase2_output' = "phase2"
    /\ phase2_out' = <<>>
    /\ idx' = 0
    /\ total_processed' = 0
    /\ total_kept' = 0
    /\ total_filtered' = 0
    /\ UNCHANGED <<seen_texts, stats, calls, scores, runs, kenlm_model, use_llm,
                   model_loaded, load_attempts, sleeps, infile, phase1_out,
                   final_out, report, raised>>
    /\ HarnessIdle

\* `else:` phase2_output = phase1_output; phase2_stats = {}
Phase2Skip ==
    /\ pc = "stage2"
    /\ ~kenlm_model
    /\ pc' = "stage3"
    /\ phase2_output' = "phase1"
    /\ report' = [report EXCEPT !.phase2 = EmptySection]
    /\ UNCHANGED <<seen_texts, stats, calls, scores, runs, kenlm_model, use_llm,
                   model_loaded, load_attempts, sleeps, infile, phase1_out,
                   phase2_out, final_out, idx, total_processed, total_kept,
                   total_filtered, raised>>
    /\ HarnessIdle

\* A stage 2 that writes each kept record in front of the ones written
\* before it.
Phase2Record_prepend(scored) ==
    /\ pc = "phase2"
    /\ idx < Len(phase1_out)
    /\ idx' = idx + 1
    /\ total_processed' = total_processed + 1
    /\ scores' = Append(scores, [stage |-> 2, entry |-> phase1_out[idx + 1],
                                 score |-> scored])
    /\ LET entry == phase1_out[idx + 1]
           d == Phase2Decision(entry, scored)
       IN  /\ phase2_out' = IF d = "kept" THEN <<entry>> \o phase2_out
                            ELSE phase2_out
           /\ total_kept' = IF d = "kept" THEN total_kept + 1 ELSE total_kept
           /\ total_filtered' = IF d = "filtered" THEN total_filtered + 1
                                ELSE total_filtered
    /\ UNCHANGED <<seen_texts, stats, calls, pc, runs, kenlm_model, use_llm,
                   model_loaded, load_attempts, sleeps, infile, phase1_out,
                   phase2_output, final_out, report, raised>>
    /\ HarnessIdle

\* One iteration of the stage 2 loop.  The lines of the stage 1 output are
\* the entries json.dump wrote, one per line, and decode to those entries.
Phase2Record(scored) ==
    /\ pc = "phase2"
    /\ idx < Len(phase1_out)
    /\ idx' = idx + 1
    /\ total_processed' = total_processed + 1
    /\ scores' = Append(scores, [stage |-> 2, entry |-> phase1_out[idx + 1],
                                 score |-> scored])
    /\ LET entry == phase1_out[idx + 1]
           d == Phase2Decision(entry, scored)
       IN  /\ phase2_out' = IF d = "kept" THEN Append(phase2_out, entry)
                            ELSE phase2_out
           /\ total_kept' = IF d = "kept" THEN total_kept + 1 ELSE total_kept
           /\ total_filtered' = IF d = "filtered" THEN total_filtered + 1
                                ELSE total_filtered
    /\ UNCHANGED <<seen_texts, stats, calls, pc, runs, kenlm_model, use_llm,
                   model_loaded, load_attempts, sleeps, infile, phase1_out,
                   phase2_output, final_out, report, raised>>
    /\ HarnessIdle

\* The stage 2 loop ends: _phase2_kenlm_filtering returns its dict.
Phase2End ==
    /\ pc = "phase2"
    /\ idx = Len(phase1_out)
    /\ pc' = "stage3"
    /\ report' = [report EXCEPT
                     !.phase2 = FilterStats(total_processed, total_kept,
                                            total_filtered)]
    /\ UNCHANGED <<seen_texts, stats, calls, scores, runs, kenlm_model, use_llm,
                   model_loaded, load_attempts, sleeps, infile, phase1_out,
                   phase2_out, phase2_output, final_out, idx,
                   total_processed, total_kept, total_filtered, raised>>
    /\ HarnessIdle

\* `if self.use_llm and self.llm_calculator:` stage 3 opens the final
\* output and starts its loop.
Phase3Start ==
    /\ pc = "stage3"
    /\ use_llm
    /\ pc' = "phase3"
    /\ final_out' = <<>>
    /\ idx' = 0
    /\ total_processed' = 0
    /\ total_kept' = 0
    /\ total_filtered' = 0
    /\ UNCHANGED <<seen_texts, stats, calls, scores, runs, kenlm_model, use_llm,
                   model_loaded, load_attempts, sleeps, infile, phase1_out,
                   phase2_out, phase2_output, report, raised>>
    /\ HarnessIdle

\* A skipped stage 3 that copies the file at stage 2's own path, whether
\* stage 2 wrote it or not.
Phase3Skip_phase2_path ==
    /\ pc = "stage3"
    /\ ~use_llm
    /\ pc' = "done"
    /\ final_out' = phase2_out
    /\ report' = [report EXCEPT !.phase3 = EmptySection, !.returned = TRUE]
    /\ UNCHANGED <<seen_texts, stats, calls, scores, runs, kenlm_model, use_llm,
                   model_loaded, load_attempts, sleeps, infile, phase1_out,
                   phase2_out, phase2_output, idx, total_processed,
                   total_kept, total_filtered, raised>>
    /\ HarnessIdle

\* `else:` shutil.copy(phase2_output, output_path); final_stats = {};
\* process_file returns the report.
Phase3Skip ==
    /\ pc = "stage3"
    /\ ~use_llm
    /\ pc' = "done"
    /\ final_out' = Phase2OutputFile
    /\ report' = [report EXCEPT !.phase3 = EmptySection, !.returned = TRUE]
    /\ UNCHANGED <<seen_texts, stats, calls, scores, runs, kenlm_model, use_llm,
                   model_loaded, load_attempts, sleeps, infile, phase1_out,
                   phase2_out, phase2_output, idx, total_processed,
                   total_kept, total_filtered, raised>>
    /\ HarnessIdle

\* One iteration of the stage 3 loop.  A RuntimeError of _load_model is
\* caught nowhere: it closes the handles and leaves process_file.
Phase3Record(fails, computed) ==
    /\ pc = "phase3"
    /\ idx < Len(Phase2OutputFile)
    /\ idx' = idx + 1
    /\ total_processed' = total_processed + 1
    /\ LET entry == Phase2OutputFile[idx + 1]
           text  == EntryText(entry)
       IN  IF Falsy(text)
           THEN UNCHANGED <<final_out, total_kept, total_filtered, pc, raised,
                            model_loaded, load_attempts, sleeps, scores>>
           ELSE LET r == calculate_perplexity(text.s, model_loaded, fails,
                                              computed)
                IN  /\ model_loaded' = r.loaded
                    /\ scores' = Append(scores, [stage |-> 3, entry |-> entry,
                                                 score |-> r.score])
                    /\ load_attempts' = load_attempts + r.attempts
                    /\ sleeps' = sleeps \o r.slept
                    /\ IF r.score = "RuntimeError"
                       THEN /\ pc' = "raised"
                            /\ raised' = "RuntimeError"
                            /\ UNCHANGED <<final_out, total_kept,
                                           total_filtered>>
                       ELSE /\ UNCHANGED <<pc, raised>>
                            /\ IF is_high_quality(r.score)
                               THEN /\ final_out' = Append(final_out, entry)
                                    /\ total_kept' = total_kept + 1
                                    /\ UNCHANGED total_filtered
                               ELSE /\ total_filtered' = total_filtered + 1
                                    /\ UNCHANGED <<final_out, total_kept>>
    /\ UNCHANGED <<seen_texts, stats, calls, runs, kenlm_model, use_llm,
                   infile, phase1_out, phase2_out, phase2_output, report>>
    /\ HarnessIdle

\* The stage 3 loop ends and process_file returns the report.
Phase3End ==
    /\ pc = "phase3"
    /\ idx = Len(Phase2OutputFile)
    /\ pc' = "done"
    /\ report' = [report EXCEPT
                     !.phase3 = FilterStats(total_processed, total_kept,
                                            total_filtered),
                     !.returned = TRUE]
    /\ UNCHANGED <<seen_texts, stats, calls, scores, runs, kenlm_model, use_llm,
                   model_loaded, load_attempts, sleeps, infile, phase1_out,
                   phase2_out, phase2_output, final_out, idx,
                   total_processed, total_kept, total_filtered, raised>>
    /\ HarnessIdle

\* The markup parser's answer matters only for a text holding '<'.
HtmlAnswers(line) ==
    IF line.kind = "object" /\ text_field \in DOMAIN line.obj
       /\ 60 \in Range(line.obj[text_field].s)
    THEN BOOLEAN ELSE {FALSE}

Next ==
    \/ \E exists \in BOOLEAN : StartRun(exists)
    \/ \E line \in Lines : \E htm \in HtmlAnswers(line) : Phase1Line(line, htm)
    \/ Phase1End
    \/ Phase2Start
    \/ Phase2Skip
    \/ \E scored \in {"raise", "low", "high"} : Phase2Record(scored)
    \/ Phase2End
    \/ Phase3Start
    \/ Phase3Skip
    \/ \E fails \in 0..max_retries :
         \E computed \in {"None", "low", "high"} : Phase3Record(fails, computed)
    \/ Phase3End

Spec == Init /\ [][Next]_vars

----------------------------------------------------------------------------
(* Properties of stage 1 (CorpusCleaner.clean), stated over the history    *)
(* calls of the lines one cleaner has handled.                             *)

\* The call handled a record whose text field is a string.
HasText(c) ==
    /\ c.line.kind = "object"
    /\ text_field \in DOMAIN c.line.obj
    /\ c.line.obj[text_field].ty = "str"

RawText(c) == c.line.obj[text_field].s

InLength(c) == Len(RawText(c)) >= min_length /\ Len(RawText(c)) <= max_length

RECURSIVE WordsFrom(_, _)
\* The maximal whitespace-free runs of s from position p on, in order.
\* Two texts are identical after whitespace collapsing and trimming exactly
\* when they have the same runs.
WordsFrom(s, p) ==
    LET starts == {k \in p..Len(s) : ~IsSpace(s[k])}
    IN  IF starts = {} THEN <<>>
        ELSE LET a == CHOOSE k \in starts : \A m \in starts : k <= m
                 stop == {k \in a..Len(s) : IsSpace(s[k])}
                 e == IF stop = {} THEN Len(s)
                      ELSE (CHOOSE k \in stop : \A m \in stop : k <= m) - 1
             IN  << SubSeq(s, a, e) >> \o WordsFrom(s, e + 1)

SameCollapsed(t, u) == WordsFrom(t, 1) = WordsFrom(u, 1)

\* C1 as stated: of two records of one run whose texts are identical after
\* whitespace collapsing, the later is rejected as duplicate_filtered and
\* the earlier is not.
C1_DuplicatePairs ==
    \A i, j \in DOMAIN calls :
        ( /\ i < j
          /\ calls[i].run = calls[j].run
          /\ HasText(calls[i]) /\ HasText(calls[j])
          /\ SameCollapsed(RawText(calls[i]), RawText(calls[j])) )
        => /\ calls[j].counter = "duplicate_filtered"
           /\ calls[i].counter # "duplicate_filtered"

\* C1 amended: a record whose text passes the length check is rejected as
\* duplicate_filtered exactly when an earlier record handled by the same
\* cleaner had a text that passed the length check and is identical to it
\* after whitespace collapsing.  So of two such records the later is
\* rejected as duplicate, and the first of them is not.
C1_DuplicateAmongLengthPassing ==
    \A j \in DOMAIN calls :
        (HasText(calls[j]) /\ InLength(calls[j]))
        => ( calls[j].counter = "duplicate_filtered"
             <=> \E i \in 1..(j - 1) :
                    /\ HasText(calls[i]) /\ InLength(calls[i])
                    /\ SameCollapsed(RawText(calls[i]), RawText(calls[j])) )

\* Scenario B at a length the length check passes: the text is kept, the
\* same text with a trailing fullwidth space is then rejected as duplicate.
C1_Witness ==
    \E i, j \in DOMAIN calls :
        /\ i < j
        /\ calls[i].run = calls[j].run
        /\ calls[i].line = TextLine(TextGood)
        /\ calls[j].line = TextLine(TextGoodPadded)
        /\ calls[i].counter = "kept"
        /\ calls[j].counter = "duplicate_filtered"

\* C2: a clean() call on a text shorter than min_length or longer than
\* max_length increments length_filtered and nothing else, inserts no
\* fingerprint and emits nothing; a text of length exactly min_length or
\* max_length is not rejected by the length check.
C2_LengthRejection ==
    [][ (pc = "phase1" /\ Len(calls') = Len(calls) + 1)
        => LET c == calls'[Len(calls')]
           IN  HasText(c)
               => /\ ~InLength(c)
                     => /\ c.counter = "length_filtered"
                        /\ c.ret = "None"
                        /\ stats' = [stats EXCEPT !["length_filtered"] = @ + 1]
                        /\ seen_texts' = seen_texts
                        /\ phase1_out' = phase1_out
                  /\ Len(RawText(c)) \in {min_length, max_length}
                     => c.counter # "length_filtered" ]_vars

\* A too long text was rejected by length and texts of exactly min_length
\* and exactly max_length got past the length check.
C2_Witness ==
    /\ \E i \in DOMAIN calls :
          /\ HasText(calls[i])
          /\ ~InLength(calls[i])
          /\ calls[i].counter = "length_filtered"
    /\ \E j \in DOMAIN calls :
          /\ HasText(calls[j])
          /\ Len(RawText(calls[j])) \in {min_length, max_length}
          /\ calls[j].counter # "length_filtered"

----------------------------------------------------------------------------
(* _normalize_text applied once and once more to its own result.           *)

MaxNormLen == 5
MaxRepeat == 3

\* The characters the texts are drawn from: fullwidth A, space, line feed,
\* ideographic full stop, box-drawing light horizontal.
NormAlphabet == {65313, 32, 10, 12290, 9472}

NormTexts == UNION {[1..n -> NormAlphabet] : n \in 0..MaxNormLen}

\* A pipeline that was constructed and never run.
PipelineIdle ==
    /\ seen_texts = {}
    /\ stats = ZeroStats
    /\ calls = <<>>
    /\ scores = <<>>
    /\ pc = "idle"
    /\ runs = 0
    /\ kenlm_model = FALSE
    /\ use_llm = FALSE
    /\ model_loaded = FALSE
    /\ load_attempts = 0
    /\ sleeps = <<>>
    /\ infile = <<>>
    /\ phase1_out = <<>>
    /\ phase2_out = <<>>
    /\ phase2_output = "phase2"
    /\ final_out = <<>>
    /\ idx = 0
    /\ total_processed = 0
    /\ total_kept = 0
    /\ total_filtered = 0
    /\ report = NoReport
    /\ raised = "none"

\* A cleaner configured with max_repeat_chars = nrep and a text nx.
NormInit ==
    /\ PipelineIdle
    /\ nx \in NormTexts
    /\ nrep \in 1..MaxRepeat
    /\ npass = <<>>
    /\ lfrags = <<>> /\ lres = <<>>

\* y = cleaner._normalize_text(x)
NormFirst ==
    /\ npass = <<>>
    /\ npass' = <<_normalize_text(nx, nrep)>>
    /\ UNCHANGED <<pipeVars, nx, nrep, logVars>>

\* z = cleaner._normalize_text(y)
NormAgain ==
    /\ Len(npass) = 1
    /\ npass' = Append(npass, _normalize_text(npass[1], nrep))
    /\ UNCHANGED <<pipeVars, nx, nrep, logVars>>

NormNext == NormFirst \/ NormAgain

SpecNorm == NormInit /\ [][NormNext]_vars

----------------------------------------------------------------------------
(* _looks_like_log on texts assembled from lines.                          *)

MaxFrags == 4

\* "2024-01-01 10:00:00"
FragTimestamp == SubSeq(TextLog, 1, 19)
\* "[INFO]"
FragInfo == SubSeq(TextLog, 21, 26)
\* "ERROR:"
FragErrorColon == SubSeq(TextLog, 28, 33)
\* "Exception:"
FragException == SubSeq(TextLog, 35, 44)
\* "Traceback (most recent call last)"
FragTraceback ==
    <<84,114,97,99,101,98,97,99,107,32,40,109,111,115,116,32,114,101,99,101,
      110,116,32,99,97,108,108,32,108,97,115,116,41>>
\* "[ERROR]"
FragErrorLevel == <<91,69,82,82,79,82,93>>
\* "ok"
FragFiller == <<111, 107>>

Frags ==
    {FragTimestamp, FragInfo, FragErrorColon, FragException, FragTraceback,
     FragErrorLevel, FragFiller}

FragLists == UNION {[1..n -> Frags] : n \in 0..MaxFrags}

\* '\n'.join(lines)
LogText(lines) == JoinLines(lines, 1)

LogInit ==
    /\ PipelineIdle
    /\ nx = <<>> /\ nrep = 1 /\ npass = <<>>
    /\ lfrags \in FragLists
    /\ lres = <<>>

\* r = cleaner._looks_like_log(text)
LogCheck ==
    /\ lres = <<>>
    /\ lres' = <<_looks_like_log(LogText(lfrags))>>
    /\ UNCHANGED <<pipeVars, normVars, lfrags>>

LogNext == LogCheck

SpecLog == LogInit /\ [][LogNext]_vars

----------------------------------------------------------------------------
(* clean() of a fresh cleaner on one text, for every max_repeat_chars.     *)

MaxPieces == 4

\* "これは日本語の文章です"
PieceSentence == SubSeq(TextGood, 1, 11)
\* "。"
PieceStop == <<12290>>
\* "よよよよ"
PieceRepeat == <<12424, 12424, 12424, 12424>>
\* "───"
PieceRule == <<9472, 9472, 9472>>
\* "\n"
PieceNewline == <<10>>
\* "Ａ"
PieceFullwidth == <<65313>>

Pieces ==
    {PieceSentence, PieceStop, PieceRepeat, PieceRule, PieceNewline,
     PieceFullwidth}

RECURSIVE Concat(_, _)
\* ''.join(pieces), from piece i.
Concat(pieces, i) ==
    IF i > Len(pieces) THEN <<>> ELSE pieces[i] \o Concat(pieces, i + 1)

EmitTexts ==
    {Concat(f, 1) : f \in UNION {[1..n -> Pieces] : n \in 0..MaxPieces}}

\* A cleaner configured with max_repeat_chars = nrep, and a text nx.
EmitInit ==
    /\ PipelineIdle
    /\ nx \in EmitTexts
    /\ nrep \in 1..MaxRepeat
    /\ npass = <<>>
    /\ lfrags = <<>> /\ lres = <<>>

\* r = cleaner.clean({"content": nx, "id": 7}, "content"): lres holds
\* whether an entry came back, npass the text of that entry.
EmitRecord ==
    /\ lres = <<>>
    /\ LET r == clean(TextLine(nx), seen_texts, stats, FALSE)
       IN  /\ seen_texts' = r.seen
           /\ stats' = r.stats
           /\ lres' = <<r.ret = "entry">>
           /\ npass' = IF r.ret = "entry"
                       THEN <<_normalize_text(nx, nrep)>>
                       ELSE <<>>
    /\ UNCHANGED <<calls, scores, pc, runs, kenlm_model, use_llm,
                   model_loaded, load_attempts, sleeps, infile, phase1_out,
                   phase2_out, phase2_output, final_out, idx,
                   total_processed, total_kept, total_filtered, report,
                   raised, nx, nrep, lfrags>>

EmitNext == EmitRecord

SpecEmit == EmitInit /\ [][EmitNext]_vars

----------------------------------------------------------------------------
(* _has_too_many_emojis on texts of emoji and letters.                     *)

MaxEmojiLen == 10

\* U+1F600 (grinning face) and the letter a.
EmojiAlphabet == {128512, 97}

EmojiTexts == UNION {[1..n -> EmojiAlphabet] : n \in 0..MaxEmojiLen}

EmojiInit ==
    /\ PipelineIdle
    /\ nx \in EmojiTexts
    /\ nrep = 1 /\ npass = <<>>
    /\ lfrags = <<>> /\ lres = <<>>

\* r = cleaner._has_too_many_emojis(nx)
EmojiCheck ==
    /\ lres = <<>>
    /\ lres' = <<_has_too_many_emojis(nx)>>
    /\ UNCHANGED <<pipeVars, normVars, lfrags>>

EmojiNext == EmojiCheck

SpecEmoji == EmojiInit /\ [][EmojiNext]_vars

----------------------------------------------------------------------------
(* _has_too_much_code on texts built from code-like and plain pieces.      *)

MaxCodePieces == 4

CodeFence == <<96, 96, 96>>                          \* ```
CodeFencePy == <<96, 96, 96, 112, 121>>              \* ```py
CodeImport == <<105, 109, 112, 111, 114, 116, 32, 111, 115>>   \* import os
CodeFiller == <<97, 97, 97, 97, 97, 97>>             \* aaaaaa
CodeNewline == <<10>>

CodePieces == {CodeFence, CodeFencePy, CodeImport, CodeFiller, CodeNewline}

CodeTexts ==
    {Concat(f, 1) : f \in UNION {[1..n -> CodePieces] : n \in 0..MaxCodePieces}}

CodeInit ==
    /\ PipelineIdle
    /\ nx \in CodeTexts
    /\ nrep = 1 /\ npass = <<>>
    /\ lfrags = <<>> /\ lres = <<>>

\* r = cleaner._has_too_much_code(nx)
CodeCheck ==
    /\ lres = <<>>
    /\ lres' = <<_has_too_much_code(nx)>>
    /\ UNCHANGED <<pipeVars, normVars, lfrags>>

CodeNext == CodeCheck

SpecCode == CodeInit /\ [][CodeNext]_vars

----------------------------------------------------------------------------
(* _normalize_newlines on texts built from headings, plain lines, stops.   *)

MaxReflowPieces == 4

ReflowHeading == <<35, 32, 84>>          \* "# T"
ReflowPlain == <<97, 98>>                \* "ab"
ReflowStop == <<12290>>                  \* "。"
ReflowNewline == <<10>>
ReflowSpace == <<32>>

ReflowPieces ==
    {ReflowHeading, ReflowPlain, ReflowStop, ReflowNewline, ReflowSpace}

ReflowTexts ==
    {Concat(f, 1) :
        f \in UNION {[1..n -> ReflowPieces] : n \in 0..MaxReflowPieces}}

ReflowInit ==
    /\ PipelineIdle
    /\ nx \in ReflowTexts
    /\ nrep = 1 /\ npass = <<>>
    /\ lfrags = <<>> /\ lres = <<>>

\* out = cleaner._normalize_newlines(nx)
ReflowApply ==
    /\ npass = <<>>
    /\ npass' = <<_normalize_newlines(nx)>>
    /\ UNCHANGED <<pipeVars, nx, nrep, logVars>>

ReflowNext == ReflowApply

SpecReflow == ReflowInit /\ [][ReflowNext]_vars

----------------------------------------------------------------------------
(* Properties of the pipeline.                                             *)

RECURSIVE SumOver(_, _)
SumOver(f, names) ==
    IF names = {} THEN 0
    ELSE LET n == CHOOSE x \in names : TRUE
         IN  f[n] + SumOver(f, names \ {n})

\* The rejection counts a section reports: for stage 1 the reason counters
\* of the cleaner, for stages 2 and 3 total_excluded.
RejectionCount(section, stage) ==
    IF stage = 1 THEN SumOver(section.counters, RejectCounters)
    ELSE section.total_excluded

Conserves(section, stage) ==
    (section.assigned /\ ~section.empty)
    => section.total_processed
         = section.total_kept + RejectionCount(section, stage)

\* C3 as stated: the section every finished stage reports has
\* total_processed = total_kept + the sum of the stage's rejection counts.
C3_Conservation ==
    /\ Conserves(report.phase1, 1)
    /\ Conserves(report.phase2, 2)
    /\ Conserves(report.phase3, 3)

\* The record was given no score: the statistical scorer raised or the
\* text has no word (stage 2), the neural scorer returned None (stage 3).
NoScore(sc) ==
    IF sc.stage = 2
    THEN sc.score = "raise" \/ WordCount(EntryText(sc.entry).s) = 0
    ELSE sc.score = "None"

\* The stage 2 loop body on a text of spaces only (zero words): counted
\* as filtered whatever the scorer returns.
ZeroWordsFiltered ==
    \A scored \in {"low", "high", "raise"} :
        Phase2Decision(text_field :> Str(<<32, 32>>), scored) = "filtered"

\* C4: a step of stage 2 or stage 3 that handles a record for which the
\* scorer yields no score (it raised, the text has zero words, or it
\* returned None) writes nothing to the stage's output and counts the
\* record as filtered.
C4_FailClosed ==
    /\ ZeroWordsFiltered
    /\ [][ (Len(scores') = Len(scores) + 1
            /\ NoScore(scores'[Len(scores')]))
           => /\ phase2_out' = phase2_out
              /\ final_out' = final_out
              /\ total_kept' = total_kept
              /\ total_filtered' = total_filtered + 1 ]_vars

\* Both stages met a record without score: in stage 2 the scorer raised on
\* one record and scored another, which stage 3 then could not score, and
\* neither output holds the unscored record.
C4_Witness ==
    /\ pc = "done"
    /\ \E a, b \in DOMAIN scores :
          /\ scores[a].stage = 2 /\ scores[a].score = "raise"
          /\ scores[b].stage = 3 /\ scores[b].score = "None"
          /\ \A k \in DOMAIN phase2_out : phase2_out[k] # scores[a].entry
    /\ Len(phase2_out) = 1
    /\ final_out = <<>>

\* C5 as stated: a stage 1 line that is not a well-formed record is counted
\* in one stats counter and never aborts the run.
C5_MalformedNeverFatal ==
    \A k \in DOMAIN calls :
        calls[k].line.kind # "object"
        => /\ ~calls[k].raised
           /\ calls[k].counter \in Counters

\* C6 as stated: a neural model that fails to load on all attempts leaves
\* the run with the report returned and the final output equal to stage
\* 2's output.
C6_LoadFailureFallsBack ==
    raised = "RuntimeError"
    => /\ report.returned
       /\ report.phase1.assigned /\ report.phase2.assigned
       /\ final_out = Phase2OutputFile

\* C7: a skipped stage reports the empty section and hands on exactly its
\* input; with both stages skipped the final output is the stage 1 output.
C7_SkippedStagePassThrough ==
    /\ (pc \in {"stage3", "phase3", "done"} /\ ~kenlm_model)
       => /\ report.phase2 = EmptySection
          /\ Phase2OutputFile = phase1_out
    /\ (pc = "done" /\ ~use_llm)
       => /\ report.phase3 = EmptySection
          /\ final_out = Phase2OutputFile
    /\ (pc = "done" /\ ~kenlm_model /\ ~use_llm)
       => final_out = phase1_out

\* Scenario E with a record kept: no scorer configured, the run is over,
\* both sections are empty and the final output is the stage 1 output.
C7_Witness ==
    /\ pc = "done"
    /\ ~kenlm_model /\ ~use_llm
    /\ Len(phase1_out) > 0
    /\ final_out = phase1_out
    /\ report.returned /\ report.phase2.empty /\ report.phase3.empty

\* Fullwidth Latin letters, digits and the fullwidth space.
IsFullwidth(c) ==
    c \in 65313..65338 \/ c \in 65345..65370 \/ c \in 65296..65305 \/ c = 12288

\* C8: the entry clean() returns has the fields of the input entry, its
\* text field is normalize(raw text), which holds no fullwidth Latin
\* letter, digit or space, and every other field has its input value.
C8_KeptRecordFrame ==
    \A k \in DOMAIN calls :
        calls[k].ret = "entry"
        => LET in  == calls[k].line.obj
               out == calls[k].entry
           IN  /\ DOMAIN out = DOMAIN in
               /\ out[text_field]
                    = Str(_normalize_text(in[text_field].s, max_repeat_chars))
               /\ \A p \in DOMAIN out[text_field].s :
                     ~IsFullwidth(out[text_field].s[p])
               /\ \A f \in DOMAIN in \ {text_field} : out[f] = in[f]

\* Scenario D: a text with fullwidth letters was kept, the emitted text has
\* the halfwidth letters A, B, C in their place and id is still 7.
C8_Witness ==
    \E k \in DOMAIN calls :
        /\ calls[k].line = TextLine(TextFullwidth)
        /\ calls[k].ret = "entry"
        /\ calls[k].entry[text_field].s # TextFullwidth
        /\ SubSeq(calls[k].entry[text_field].s, 4, 6) = <<65, 66, 67>>
        /\ calls[k].entry[id_field] = Num(7)

----------------------------------------------------------------------------
(* Properties of normalisation and of log detection.                       *)

\* C9 as stated: for every text x and every max_repeat_chars >= 1,
\* normalize(normalize(x)) = normalize(x).
C9_Idempotent ==
    Len(npass) = 2 => npass[2] = npass[1]

\* The log signal a line carries (0: none), by what the line is.
SignalOf(frag) ==
    CASE frag = FragTimestamp  -> 1
      [] frag \in {FragInfo, FragErrorLevel} -> 2
      [] frag = FragErrorColon -> 3
      [] frag = FragException  -> 4
      [] frag = FragTraceback  -> 5
      [] OTHER -> 0

\* The distinct signals among the lines of the text.
Signals(lines) == {SignalOf(lines[k]) : k \in DOMAIN lines} \ {0}

\* C10: _looks_like_log answers true exactly when at least 3 of the five
\* signals occur in the text, however often each of them occurs.
C10_ThreeDistinctSignals ==
    lres # <<>> => (lres[1] <=> Cardinality(Signals(lfrags)) >= 3)

\* Four lines that all carry a signal, of exactly 2 distinct signals one of
\* which occurs three times: not taken for a log.
C10_Witness ==
    /\ lres = <<FALSE>>
    /\ Len(lfrags) = 4
    /\ \A k \in DOMAIN lfrags : SignalOf(lfrags[k]) # 0
    /\ Cardinality(Signals(lfrags)) = 2
    /\ \E g \in Signals(lfrags) :
          Cardinality({k \in DOMAIN lfrags : SignalOf(lfrags[k]) = g}) = 3

----------------------------------------------------------------------------
(* Properties of clean() and of the stages, continued.                     *)

\* The counter the fixed order of checks gives a decoded line: the first
\* of field-present, text-typed, length, duplicate, impurity, sentence
\* structure, script ratio that fails, or kept.
FirstFailing(line, seen, htm) ==
    IF line.kind # "object" \/ text_field \notin DOMAIN line.obj
    THEN "missing_text_field"
    ELSE IF line.obj[text_field].ty # "str" THEN "invalid_text_type"
    ELSE LET text == line.obj[text_field].s
         IN  IF Len(text) < min_length \/ Len(text) > max_length
             THEN "length_filtered"
             ELSE IF \E u \in seen : u = Fingerprint(text)
             THEN "duplicate_filtered"
             ELSE IF ~_check_impurities(text, htm) THEN "impurity_filtered"
             ELSE IF ~_check_sentence_structure(text)
             THEN "sentence_structure_filtered"
             ELSE IF ~_check_japanese_character_ratio(text)
             THEN "japanese_character_ratio_filtered"
             ELSE "kept"

\* A step of stage 1 in which clean() was called: the line was decoded.
CleanCalled ==
    /\ Len(calls') = Len(calls) + 1
    /\ calls'[Len(calls')].line.kind # "invalid"

\* C11 as stated: each call to clean() adds exactly 1 to exactly one stats
\* counter, the counter of the first failing check in the fixed order or
\* kept, and returns a record exactly when that counter is kept.
C11_OneCounterPerCall ==
    [][ CleanCalled
        => LET c == calls'[Len(calls')]
           IN  \E n \in Counters :
                 /\ stats' = [stats EXCEPT ![n] = @ + 1]
                 /\ \E htm \in HtmlAnswers(c.line) :
                       n = FirstFailing(c.line, seen_texts, htm)
                 /\ (c.ret = "entry" <=> n = "kept")
                 /\ (phase1_out' # phase1_out <=> n = "kept") ]_vars

\* The same for the calls whose argument is a decoded JSON object; these
\* calls do satisfy it.
ObjectCallsCountOnce ==
    [][ (CleanCalled /\ calls'[Len(calls')].line.kind = "object")
        => LET c == calls'[Len(calls')]
           IN  \E n \in Counters :
                 /\ stats' = [stats EXCEPT ![n] = @ + 1]
                 /\ \E htm \in HtmlAnswers(c.line) :
                       n = FirstFailing(c.line, seen_texts, htm)
                 /\ (c.ret = "entry" <=> n = "kept") ]_vars

RECURSIVE IsSubseqFrom(_, _, _, _)
\* out[i..] can be read off in[j..] from left to right, each record of out
\* at a position of its own.
IsSubseqFrom(out, i, in, j) ==
    IF i > Len(out) THEN TRUE
    ELSE IF j > Len(in) THEN FALSE
    ELSE IF out[i] = in[j] THEN IsSubseqFrom(out, i + 1, in, j + 1)
    ELSE IsSubseqFrom(out, i, in, j + 1)

IsSubseq(out, in) == IsSubseqFrom(out, 1, in, 1)

\* The record stage 1 writes for an input line it keeps: the decoded
\* object with its text normalized; NoEntry for a line that holds no text.
EmittedForm(line) ==
    IF line.kind = "object" /\ text_field \in DOMAIN line.obj
       /\ line.obj[text_field].ty = "str"
    THEN [line.obj EXCEPT ![text_field] =
             Str(_normalize_text(line.obj[text_field].s, max_repeat_chars))]
    ELSE NoEntry

\* C12: the output of every stage is a subsequence of the stage's input:
\* stage 1 of the input lines (each written in its emitted form), stage 2
\* of the stage 1 output, stage 3 of the stage 2 output.
C12_OutputIsSubsequence ==
    /\ (pc \in {"phase1", "stage2", "phase2", "stage3", "phase3", "done"}
        \/ raised \in {"TypeError", "RuntimeError"})
       => IsSubseq(phase1_out, [k \in DOMAIN infile |-> EmittedForm(infile[k])])
    /\ (kenlm_model /\ (pc \in {"phase2", "stage3", "phase3", "done"}
                        \/ raised = "RuntimeError"))
       => IsSubseq(phase2_out, phase1_out)
    /\ (use_llm /\ (pc \in {"phase3", "done"} \/ raised = "RuntimeError"))
       => IsSubseq(final_out, Phase2OutputFile)

\* A finished run with all three stages: stage 1 kept two different
\* records, stage 2 dropped the first and kept the second, and stage 3
\* kept that one.
C12_Witness ==
    /\ pc = "done" /\ kenlm_model /\ use_llm
    /\ Len(infile) = 2 /\ Len(phase1_out) = 2
    /\ phase1_out[1] # phase1_out[2]
    /\ phase2_out = <<phase1_out[2]>>
    /\ final_out = phase2_out

\* C13: a process_file call on an input that does not exist raises before
\* anything runs: the stage 1, stage 2 and final output files, the
\* duplicate index, the stats counters and the scorer are as they were, no
\* report is returned, and nothing follows but another process_file call.
C13_MissingInputPreflight ==
    [][ /\ (runs' = runs + 1 /\ raised' = "FileNotFoundError")
           => /\ pc' = "raised"
              /\ phase1_out' = phase1_out
              /\ phase2_out' = phase2_out
              /\ final_out' = final_out
              /\ seen_texts' = seen_texts
              /\ stats' = stats
              /\ calls' = calls /\ scores' = scores
              /\ model_loaded' = model_loaded
              /\ ~report'.returned
              /\ ~report'.phase1.assigned
        /\ raised = "FileNotFoundError" => runs' = runs + 1 ]_vars

\* The second call of a pipeline found no input: the files and the
\* duplicate index the first call left are still there.
C13_Witness ==
    /\ raised = "FileNotFoundError"
    /\ runs = 2
    /\ Len(phase1_out) > 0
    /\ final_out = phase1_out
    /\ seen_texts # {}
    /\ stats["kept"] > 0

\* C14: over the lifetime of a cleaner no fingerprint leaves the duplicate
\* index and no stats counter decreases, whatever step is taken, and a
\* clean() call rejected as duplicate leaves the index as it was.
C14_MonotoneState ==
    [][ /\ seen_texts \subseteq seen_texts'
        /\ \A n \in Counters : stats'[n] >= stats[n]
        /\ (CleanCalled
            /\ calls'[Len(calls')].counter = "duplicate_filtered")
           => seen_texts' = seen_texts ]_vars

\* In its second run the cleaner got a text whose fingerprint the index
\* held since the first run: the call was rejected as duplicate and the
\* index still holds that one fingerprint.
C14_Witness ==
    /\ runs = 2
    /\ Len(calls) = 2
    /\ calls[1].run = 1 /\ calls[2].run = 2
    /\ calls[1].counter = "kept"
    /\ calls[2].counter = "duplicate_filtered"
    /\ Cardinality(seen_texts) = 1
    /\ stats["kept"] = 1 /\ stats["duplicate_filtered"] = 1

\* C15: the duplicate check reads the raw text.  Two records handled by
\* one cleaner whose texts pass the length check, differ after whitespace
\* collapsing and normalize to the same string are never rejected as
\* duplicates of each other: the later one is a duplicate only of another,
\* earlier text with its own fingerprint.
C15_RawTextFingerprint ==
    \A i, j \in DOMAIN calls :
        ( /\ i < j
          /\ HasText(calls[i]) /\ HasText(calls[j])
          /\ InLength(calls[i]) /\ InLength(calls[j])
          /\ ~SameCollapsed(RawText(calls[i]), RawText(calls[j]))
          /\ _normalize_text(RawText(calls[i]), max_repeat_chars)
               = _normalize_text(RawText(calls[j]), max_repeat_chars) )
        => /\ Fingerprint(RawText(calls[i])) # Fingerprint(RawText(calls[j]))
           /\ calls[j].counter = "duplicate_filtered"
              => \E k \in 1..(j - 1) :
                    /\ HasText(calls[k]) /\ InLength(calls[k])
                    /\ SameCollapsed(RawText(calls[k]), RawText(calls[j]))

\* One run kept the text with the fullwidth A and then the text with the
\* halfwidth A: stage 1 wrote two records with identical text.
C15_Witness ==
    /\ Len(calls) = 2
    /\ calls[1].run = calls[2].run
    /\ calls[1].line = TextLine(TextLeadFull)
    /\ calls[2].line = TextLine(TextLeadHalf)
    /\ calls[1].counter = "kept" /\ calls[2].counter = "kept"
    /\ Len(phase1_out) = 2
    /\ phase1_out[1] = phase1_out[2]
    /\ Cardinality(seen_texts) = 2

\* A step in which stage 3 asked the scorer for the score of a text.
Stage3Scored ==
    /\ Len(scores') = Len(scores) + 1
    /\ scores'[Len(scores')].stage = 3

\* C16: the model is loaded on the first scoring that finds it not loaded
\* and nowhere else; a load makes 1 to 3 attempts, sleeps 5 s after a
\* failed first and 10 s after a failed second attempt and not after the
\* third, raises only when the third attempt failed, and once the model is
\* loaded no attempt is made again.
C16_LazyLoadWithBackoff ==
    [][ LET made == load_attempts' - load_attempts
        IN  /\ made \in 0..3
            /\ sleeps' = sleeps \o SubSeq(<<5, 10>>, 1, made - 1)
            /\ made > 0 <=> (Stage3Scored /\ ~model_loaded)
            /\ model_loaded => (model_loaded' /\ made = 0)
            /\ made \in 1..2 => model_loaded'
            /\ (raised' = "RuntimeError" /\ pc = "phase3")
               => (made = 3 /\ ~model_loaded')
            /\ (made = 3 /\ ~model_loaded')
               => (raised' = "RuntimeError" /\ pc' = "raised") ]_vars

\* The load for the first record succeeded on its third attempt, after
\* waits of 5 s and 10 s, and the second record was scored without any
\* further attempt.
C16_Witness ==
    /\ model_loaded
    /\ load_attempts = 3
    /\ sleeps = <<5, 10>>
    /\ Cardinality({k \in DOMAIN scores : scores[k].stage = 3}) = 2

StructuralRejections ==
    {"impurity_filtered", "sentence_structure_filtered",
     "japanese_character_ratio_filtered"}

RunFirst(r) == Cardinality({k \in DOMAIN calls : calls[k].run < r})

RunLen(r) == Cardinality({k \in DOMAIN calls : calls[k].run = r})

RunCall(r, k) == calls[RunFirst(r) + k]

\* The pipeline is in its second run, and the lines stage 1 has read in it
\* are the lines it read, at the same positions, in the first run.
SecondRunSameInput ==
    /\ runs = 2
    /\ raised # "FileNotFoundError"
    /\ RunLen(1) >= 1
    /\ RunLen(2) <= RunLen(1)
    /\ \A k \in 1..RunLen(2) : RunCall(2, k).line = RunCall(1, k).line

\* The counts of the counter n over the calls of both runs.
CountOver(n) == Cardinality({k \in DOMAIN calls : calls[k].counter = n})

\* What the second run reports for stage 1 once it has read the whole
\* input: counters of both runs, totals of the second run only.
SecondRunReport ==
    (report.phase1.assigned /\ RunLen(2) = RunLen(1))
    => /\ report.phase1.total_processed = RunLen(2)
       /\ report.phase1.total_kept = 0
       /\ \A n \in Counters : report.phase1.counters[n] = CountOver(n)

\* C18 as stated: a second run over the input of the first keeps nothing in
\* stage 1, every record being rejected by length or as duplicate, and
\* reports counters cumulative over both runs next to total_processed and
\* total_kept of the second run.
C18_SecondRunLengthOrDuplicate ==
    SecondRunSameInput
    => /\ phase1_out = <<>>
       /\ \A k \in 1..RunLen(2) :
             RunCall(2, k).line.kind = "object"
             => RunCall(2, k).counter
                  \in {"length_filtered", "duplicate_filtered"}
       /\ SecondRunReport

\* C18 amended: a second run over the input of the first keeps nothing in
\* stage 1: a record whose text is a string is rejected by length or as
\* duplicate, and every other line ends as it did in the first run (the
\* same counter, or the same TypeError); the counters the second run
\* reports are cumulative over both runs, total_processed and total_kept
\* count the second run only.
C18_SecondRunKeepsNothing ==
    SecondRunSameInput
    => /\ phase1_out = <<>>
       /\ \A k \in 1..RunLen(2) :
             LET c1 == RunCall(1, k)
                 c2 == RunCall(2, k)
             IN  /\ c2.counter # "kept" /\ c2.ret = "None"
                 /\ HasText(c2)
                    => c2.counter \in {"length_filtered", "duplicate_filtered"}
                 /\ ~HasText(c2)
                    => (c2.counter = c1.counter /\ c2.raised = c1.raised)
       /\ SecondRunReport

\* The first run kept its one record; the second run over the same input
\* rejected it as duplicate and reported kept = 1, duplicate_filtered = 1,
\* total_processed = 1, total_kept = 0.
C18_Witness ==
    /\ SecondRunSameInput
    /\ RunLen(1) = 1 /\ RunLen(2) = 1
    /\ RunCall(1, 1).line = TextLine(TextGood)
    /\ RunCall(1, 1).counter = "kept"
    /\ RunCall(2, 1).counter = "duplicate_filtered"
    /\ report.phase1.assigned
    /\ report.phase1.counters["kept"] = 1
    /\ report.phase1.counters["duplicate_filtered"] = 1
    /\ report.phase1.total_processed = 1
    /\ report.phase1.total_kept = 0

\* The entry stage 1 writes for the text nx when clean() kept it.
EmittedEntry == [TextLine(nx).obj EXCEPT ![text_field] = Str(npass[1])]

\* C19: whatever max_repeat_chars >= 1 is, the text of a record clean()
\* keeps is not empty after normalization and still holds a character of
\* the Japanese scripts, so the loop bodies of stage 2 and stage 3 do not
\* take their empty-text branch on it.
C19_EmittedTextNotEmpty ==
    (lres = <<TRUE>>)
    => /\ npass[1] # <<>>
       /\ \E k \in DOMAIN npass[1] :
             \/ npass[1][k] \in 12352..12543
             \/ npass[1][k] \in 19968..40959
       /\ ~Falsy(EntryText(EmittedEntry))
       /\ \A scored \in {"raise", "low", "high"} :
             Phase2Decision(EmittedEntry, scored) # "skip"

\* With max_repeat_chars = 1 a kept text that held a rule of three box
\* glyphs and a run of four equal characters was emitted with one glyph
\* and one character of the run, the sentence still in it.
C19_Witness ==
    /\ lres = <<TRUE>>
    /\ nrep = 1
    /\ nx = PieceRule \o PieceSentence \o PieceRepeat \o PieceStop
    /\ npass[1] = <<9472>> \o PieceSentence \o <<12424>> \o PieceStop

\* The characters of the text that fall in the emoji ranges.
EmojiChars(text) == Cardinality({k \in 1..Len(text) : IsEmoji(text[k])})

\* C20 as stated: _has_too_many_emojis fails exactly when (characters in
\* the emoji ranges) / (total characters) > max_emoji_ratio, every emoji
\* character counting for itself, and never on the empty text.
C20_EmojiCharacterRatio ==
    lres # <<>>
    => ( lres[1] <=> ( /\ Len(nx) > 0
                       /\ RatioGt(EmojiChars(nx), Len(nx), max_emoji_ratio) ) )

\* The number of characters of the line of s that holds position p: the
\* characters between the surrounding newlines, newlines excluded.
EnclosingLineLen(s, p) ==
    LET before == {k \in 1..(p - 1) : s[k] = 10}
        after  == {k \in p..Len(s) : s[k] = 10}
        first  == IF before = {} THEN 1
                  ELSE (CHOOSE k \in before : \A m \in before : k >= m) + 1
        last   == IF after = {} THEN Len(s)
                  ELSE (CHOOSE k \in after : \A m \in after : k <= m) - 1
    IN  last - first + 1

RECURSIVE LineLengthsFrom(_, _, _)
\* The sum, over the matches of pat in s from position pos on, of the
\* length of the line the match starts in.
LineLengthsFrom(s, pos, pat) ==
    LET starts == {p \in pos..Len(s) : CodeMatchEnd(s, p, pat) # 0}
    IN  IF starts = {} THEN 0
        ELSE LET p == CHOOSE q \in starts : \A m \in starts : q <= m
             IN  EnclosingLineLen(s, p)
                   + LineLengthsFrom(s, CodeMatchEnd(s, p, pat) + 1, pat)

RECURSIVE LineLengthCount(_, _)
\* The same sum over the patterns k..12: a line with k matches counts k
\* times.
LineLengthCount(s, k) ==
    IF k > Len(code_patterns) THEN 0
    ELSE LineLengthsFrom(s, 1, code_patterns[k]) + LineLengthCount(s, k + 1)

\* C21 as stated: every pattern match adds the character length of its
\* enclosing line, newline excluded, to the code character count, and
\* _has_too_much_code fails exactly when that count / total length is
\* greater than max_code_ratio.
C21_CodeCountIsLineLength ==
    lres # <<>>
    => ( lres[1] <=> ( /\ Len(nx) > 0
                       /\ RatioGt(LineLengthCount(nx, 1), Len(nx),
                                  max_code_ratio) ) )

\* line is one of the lines of the text out.
IsOutputLine(line, out) ==
    LET outs == SplitLines(out, 1)
    IN  \E j \in 1..Len(outs) : outs[j] = line

\* C22 as stated: every input line that begins with a heading marker is a
\* line of the output of _normalize_newlines on its own (surrounding
\* whitespace stripped): it is not appended to the line before it and the
\* line after it is not appended to it.
C22_HeadingLinesStandAlone ==
    npass # <<>>
    => LET ins == SplitLines(nx, 1)
       IN  \A i \in 1..Len(ins) :
              IsHeading(ins[i]) => IsOutputLine(Strip(ins[i]), npass[1])

====
